---- MODULE Spec2Model ----
(***************************************************************************)
(* Asynchronous job lifecycle of src/main.py: the process-wide `tasks`     *)
(* dictionary, the two submission handlers, the two background runners     *)
(* (process_visualization_task, process_video_with_subtitle_task), the     *)
(* polling handlers and the cleanup_tasks sweeper.  Everything runs on one *)
(* asyncio event loop, so a step of the model is the code between two      *)
(* awaits.  The external ffmpeg process and the filesystem are             *)
(* collaborators: their results (exit code, stderr text, whether the       *)
(* output file appeared, whether a delete raised) are inputs of the steps. *)
(* A request to one of the synchronous endpoints (convert_video ...         *)
(* get_audio_duration) is followed from its arrival to the sending of its  *)
(* response, with the files it keeps in UPLOAD_DIR.                        *)
(***************************************************************************)
EXTENDS Integers, Sequences, FiniteSets, TLC

\* ---------------------------------------------------------------- bounds
MaxJobs == 1            \* number of task ids (uuid4 values) ever allocated
TickStep == 3600        \* seconds the clock advances in one Tick
MaxTime == 7200         \* the clock stops advancing here
MaxDuration == 2        \* longest duration_per_image / transition_duration, in seconds
AlphaGrid == 100        \* alpha takes the values 0/AlphaGrid .. AlphaGrid/AlphaGrid
MaxImages == 3          \* most images of one request
MaxPathLen == 4         \* longest path given to the escaping functions, in characters

\* ------------------------------------------------------ program constants
RETENTION == 3600       \* (current_time - completed_at).total_seconds() > 3600

PENDING == "pending"
PROCESSING == "processing"
COMPLETED == "completed"
FAILED == "failed"
TaskStatus == {PENDING, PROCESSING, COMPLETED, FAILED}

TASK_OUTPUT_DIR == "task_outputs"

VIS == "process_visualization_task"
VIDEO == "process_video_with_subtitle_task"
Runners == {VIS, VIDEO}

\* Python's None is the empty sequence, a set value v is <<v>>.
None == <<>>
Some(v) == <<v>>

Ids == 1..MaxJobs

\* os.path.join(TASK_OUTPUT_DIR, task_id)
TaskDir(j) == TASK_OUTPUT_DIR \o "/" \o ToString(j)

\* os.path.join(params["task_dir"], f"output.{params['output_format']}")
OutputPath(params) == params.task_dir \o "/output." \o params.output_format

\* what the external process may write on its error stream
StderrTexts == {"", "Invalid data found when processing input"}

VARIABLES
    tasks,      \* the `tasks` dict: task id -> record
    runner,     \* task id -> the function handed to background_tasks.add_task
    pc,         \* task id -> position of the submission / runner of that id
    disk,       \* task directory -> names of the files in it (directories that exist)
    now,        \* datetime.now(), in seconds
    obs,        \* the answer of the polling request handled in the last step
    exits,      \* history: task id -> exit codes of the stages run so far
    calc,       \* the last call of one of the pure helper functions: name, arguments, result
    sync,       \* the request to a synchronous endpoint and the files it has in UPLOAD_DIR
    response,   \* task id -> what became of the FileResponse last returned for it
    captured,   \* history: task id -> error text of the stage that exited non-zero
    confirmed,  \* history: task id -> stages whose output the runner saw with os.path.exists
    rmtreeRaised \* history: the directories on which a shutil.rmtree call raised

vars == <<tasks, runner, pc, disk, now, obs, calc, sync, response, exits, captured, confirmed, rmtreeRaised>>

\* ------------------------------------------------------------ the record
\* tasks[task_id] = {"status": PENDING, "params": ..., "output_path": None, ...}
\* faulty variant of InitialRecord: the record is created already marked as running
InitialRecord_Processing(params) ==
    [status |-> PROCESSING, params |-> params, output_path |-> None,
     error |-> None, progress |-> 0, completed_at |-> None]

\* ("created_at" is written here and echoed by get_task_status; nothing
\* else reads it and the record is kept without it)
InitialRecord(params) ==
    [status |-> PENDING, params |-> params, output_path |-> None,
     error |-> None, progress |-> 0, completed_at |-> None]

\* task_params of the two handlers, reduced to the entries the runners,
\* pollers and sweeper read
TaskParams(j) == [task_dir |-> TaskDir(j), output_format |-> "mp4"]

NoAnswer == [op |-> "none"]

\* ------------------------------------------------ the synchronous endpoints
Endpoints ==
    {"convert_video", "create_video_from_images", "add_subtitle", "create_waveform",
     "create_spectrogram", "create_audio_visualization", "separate_vocals",
     "get_audio_duration"}

\* values of the vocal_type parameter of separate_vocals
VocalTypes == {"vocals", "instrumental", "karaoke"}

\* the parameters of a request that the handlers branch on or compute with;
\* durations are whole seconds from 1 to MaxDuration
DefaultArgs ==
    [vocal_type |-> "vocals", duration_per_image |-> MaxDuration,
     transition_duration |-> 1, images |-> 1]

Args(ep) ==
    CASE ep = "separate_vocals" ->
            {[DefaultArgs EXCEPT !.vocal_type = v] : v \in VocalTypes}
      [] ep = "create_video_from_images" ->
            {[DefaultArgs EXCEPT !.duration_per_image = d, !.transition_duration = t] :
                d \in 1..MaxDuration, t \in 1..MaxDuration}
      [] ep = "create_audio_visualization" ->
            {[DefaultArgs EXCEPT !.images = n] : n \in 0..1}
      [] OTHER -> {DefaultArgs}

NoCall == [fn |-> "none"]

NoRequest ==
    [ep |-> "none", pc |-> "idle", args |-> DefaultArgs, proc |-> 0, files |-> {},
     response |-> "none", cmd |-> None, ok |-> FALSE]

Init ==
    /\ tasks = <<>>
    /\ runner = [j \in Ids |-> "none"]
    /\ pc = [j \in Ids |-> "idle"]
    /\ disk = <<>>
    /\ now = 0
    /\ obs = NoAnswer
    /\ sync = NoRequest
    /\ calc = NoCall
    /\ response = [j \in Ids |-> "none"]
    /\ exits = [j \in Ids |-> <<>>]
    /\ captured = [j \in Ids |-> None]
    /\ confirmed = [j \in Ids |-> {}]
    /\ rmtreeRaised = {}

\* no other coroutine runs between the PROCESSING write and the first await
\* of a runner, nor between its COMPLETED update and the removal of the
\* intermediate files: there is no await in between.  The model stops at
\* these two places (pc "started" and "cleanup") so that each write of
\* status is a step of its own, and lets nothing else run there.
NoRunnerMidStep == \A j \in DOMAIN pc : pc[j] \notin {"started", "cleanup"}

\* a handler is inside a call that does not return to the event loop until
\* the external process has exited (ffmpeg.run, subprocess.run)
Blocked == sync.pc = "run"

\* the event loop is free to run another coroutine
Atomic == NoRunnerMidStep /\ ~Blocked

\* uuid.uuid4(): an id no earlier request was given
FreshId == CHOOSE j \in DOMAIN pc : pc[j] = "idle" /\ \A k \in DOMAIN pc : pc[k] = "idle" => j <= k

\* ------------------------------------------------------------ submission
\* how a submission handler ends: "ok" is the record created and the runner
\* scheduled, "concat_failed" is the audio concatenation of the video handler
\* exiting non-zero (HTTP 500), the others are rejections by validation (HTTP
\* 404 / 400).  The video handler looks at the font after it has stored the
\* audios and, when there are several, after it has run ffmpeg to join them:
\* "font_rejected_after_concat" is the rejection in that case.
SubmitOutcomes(r) ==
    IF r = VIS
    THEN {"ok", "no_image_directory", "no_image_files", "empty_after_limit", "font_rejected"}
    ELSE {"ok", "no_image_directory", "no_image_files", "concat_failed", "font_rejected",
          "font_rejected_after_concat"}

Rejections ==
    {"no_image_directory", "no_image_files", "empty_after_limit", "font_rejected",
     "font_rejected_after_concat"}

\* what the handler has written into task_dir when it returns or raises:
\* "inputs" stands for the staged uploads and image copies, "concat_list.txt"
\* is the list written for the ffmpeg run that joins several audios.  The
\* visualization handler stores the audio and the subtitle before it
\* validates anything; the video handler validates the image directory first.
StagedFiles(r, outcome) ==
    IF r = VIDEO /\ outcome \in {"no_image_directory", "no_image_files"}
    THEN {}
    ELSE IF outcome = "font_rejected_after_concat"
    THEN {"inputs", "concat_list.txt"}
    ELSE {"inputs"}

\* create_audio_visualization_with_subtitle / create_video_with_subtitle_async
Submit(r, outcome) ==
    /\ Atomic
    /\ \E j \in DOMAIN pc : pc[j] = "idle"
    /\ outcome \in SubmitOutcomes(r)
    /\ LET j == FreshId IN
        /\ disk' = (TaskDir(j) :> StagedFiles(r, outcome)) @@ disk
        /\ IF outcome = "ok"
           THEN /\ tasks' = (j :> InitialRecord(TaskParams(j))) @@ tasks
                /\ runner' = [runner EXCEPT ![j] = r]
                /\ pc' = [pc EXCEPT ![j] = "scheduled"]
           ELSE /\ pc' = [pc EXCEPT ![j] = IF outcome \in Rejections
                                             THEN "rejected" ELSE "errored"]
                /\ UNCHANGED <<tasks, runner>>
    /\ obs' = NoAnswer
    /\ UNCHANGED <<calc, sync, response, now, exits, captured, confirmed, rmtreeRaised>>

\* ---------------------------------------------------------------- runner
NumStages(r) == IF r = VIS THEN 3 ELSE 2

StagePc(s) == "stage" \o ToString(s)
StageOf(p) == CHOOSE s \in 1..3 : StagePc(s) = p

\* the file stage s of runner r tells ffmpeg to write
StageOutput(r, s) ==
    IF r = VIS
    THEN CASE s = 1 -> "background.mp4" [] s = 2 -> "temp_video.mp4" [] OTHER -> "output"
    ELSE CASE s = 1 -> "video" [] OTHER -> "output"

\* whether the test after stage s includes `not os.path.exists(<output>)`
ChecksOutput(r, s) == IF r = VIS THEN s = 3 ELSE TRUE

\* faulty variant of Checkpoint: the checkpoints of the second and third stage of
\* the visualization runner are exchanged
Checkpoint_Swapped(r, s) ==
    IF r = VIS
    THEN CASE s = 1 -> 10 [] s = 2 -> 70 [] OTHER -> 40
    ELSE CASE s = 1 -> 10 [] OTHER -> 60

\* tasks[task_id]["progress"] = ... written before stage s is started
Checkpoint(r, s) ==
    IF r = VIS
    THEN CASE s = 1 -> 10 [] s = 2 -> 40 [] OTHER -> 70
    ELSE CASE s = 1 -> 10 [] OTHER -> 60

\* faulty variant of StageError: the message is the captured error text alone
StageError_StderrOnly(r, s, stderr) == stderr

\* str(e) of the exception raised when stage s is found to have failed
StageError(r, s, stderr) ==
    IF r = VIS
    THEN CASE s = 1 -> "background video generation failed"
           \* `stderr` is read before it is ever assigned: UnboundLocalError
           [] s = 2 -> "local variable 'stderr' referenced before assignment"
           [] OTHER -> "subtitle burn failed: " \o stderr
    ELSE CASE s = 1 -> "video composition failed: " \o stderr
           [] OTHER -> "add subtitle failed: " \o stderr

\* str(e) of the OSError of a failed os.makedirs, create_subprocess_exec or os.remove
OsError(what) == "[Errno] " \o what

\* the names the runner deletes one by one after the COMPLETED update
Intermediates(r) ==
    IF r = VIS THEN <<"background.mp4", "temp_video.mp4">> ELSE <<"video">>

\* faulty variant of Caught: the handler catches only the exceptions the runner
\* raises itself, an OSError escapes it
Caught_OwnOnly(exc) ==
    exc \notin {"[Errno] makedirs", "[Errno] ffmpeg", "[Errno] remove"}

\* `except Exception as e` of the runners: every exception raised in the try
\* block is an Exception
Caught(exc) == TRUE

\* faulty variant of CompletedUpdate: only status and completed_at are written, the
\* output_path and the progress are left for a later statement
CompletedUpdate_StatusOnly(rec, path, t) ==
    [rec EXCEPT !.status = COMPLETED, !.completed_at = Some(t)]

\* tasks[task_id].update({"status": COMPLETED, "output_path": ..., "progress": 100, ...})
CompletedUpdate(rec, path, t) ==
    [rec EXCEPT !.status = COMPLETED, !.output_path = Some(path),
                !.progress = 100, !.completed_at = Some(t)]

\* faulty variant of FailedUpdate: the completion time is not written
FailedUpdate_NoTime(rec, msg, t) ==
    [rec EXCEPT !.status = FAILED, !.error = Some(msg)]

\* tasks[task_id].update({"status": FAILED, "error": str(e), "completed_at": ...})
FailedUpdate(rec, msg, t) ==
    [rec EXCEPT !.status = FAILED, !.error = Some(msg), !.completed_at = Some(t)]

\* faulty variant of Rmtree: the files are deleted and the directory itself is kept
Rmtree_FilesOnly(D, d, ok) ==
    IF ok /\ d \in DOMAIN D THEN [D EXCEPT ![d] = {}] ELSE D

\* shutil.rmtree(d): ok = FALSE is the call raising (the callers swallow it)
Rmtree(D, d, ok) ==
    IF ok /\ d \in DOMAIN D THEN [x \in DOMAIN D \ {d} |-> D[x]] ELSE D

\* add file f to directory d (an external process or the runner writes it)
WriteFile(D, d, f) ==
    IF d \in DOMAIN D THEN [D EXCEPT ![d] = @ \cup {f}] ELSE D

\* os.remove(f) in directory d
RemoveFiles(D, d, fs) ==
    IF d \in DOMAIN D THEN [D EXCEPT ![d] = @ \ fs] ELSE D

\* os.path.exists(os.path.join(d, f))
Exists(D, d, f) == d \in DOMAIN D /\ f \in D[d]

\* the exit of the try block of runner j with the dict T and the disk D it
\* has built: exc = None is the normal end of the step, which leaves the
\* runner at next; exc = Some(msg) is an exception with str(e) = msg
Leave(j, T, D, exc, rmOk, next) ==
    IF exc = None
    THEN /\ tasks' = T
         /\ disk' = D
         /\ pc' = [pc EXCEPT ![j] = next]
         /\ UNCHANGED rmtreeRaised
    ELSE IF Caught(exc[1])
    THEN /\ tasks' = [T EXCEPT ![j] = FailedUpdate(T[j], exc[1], now)]
         /\ disk' = Rmtree(D, T[j].params.task_dir, rmOk)
         /\ rmtreeRaised' = IF rmOk THEN rmtreeRaised
                            ELSE rmtreeRaised \cup {T[j].params.task_dir}
         /\ pc' = [pc EXCEPT ![j] = "done"]
    ELSE /\ tasks' = T
         /\ disk' = D
         /\ pc' = [pc EXCEPT ![j] = "done"]
         /\ UNCHANGED rmtreeRaised

\* faulty variant of Start: the status is written into every pending record
Start_AllPending(j) ==
    /\ Atomic
    /\ pc[j] = "scheduled"
    /\ tasks' = [k \in DOMAIN tasks |->
                    IF tasks[k].status = PENDING
                    THEN [tasks[k] EXCEPT !.status = PROCESSING] ELSE tasks[k]]
    /\ pc' = [pc EXCEPT ![j] = "started"]
    /\ obs' = NoAnswer
    /\ UNCHANGED <<calc, sync, response, runner, disk, now, exits, captured, confirmed, rmtreeRaised>>

\* the runner is called: tasks[task_id]["status"] = TaskStatus.PROCESSING
Start(j) ==
    /\ Atomic
    /\ pc[j] = "scheduled"
    /\ tasks' = [tasks EXCEPT ![j].status = PROCESSING]
    /\ pc' = [pc EXCEPT ![j] = "started"]
    /\ obs' = NoAnswer
    /\ UNCHANGED <<calc, sync, response, runner, disk, now, exits, captured, confirmed, rmtreeRaised>>

\* from there to the first await on a process: os.makedirs(temp_image_dir)
\* (visualization runner only), the first checkpoint and the start of the
\* first stage; fault names the call that raises
Setup(j, fault, rmOk) ==
    /\ pc[j] = "started"
    /\ LET r == runner[j]
           d == tasks[j].params.task_dir
           T1 == [tasks EXCEPT ![j].progress = Checkpoint(r, 1)]
           D1 == IF r = VIS THEN WriteFile(disk, d, "temp_images") ELSE disk
       IN  /\ fault \in (IF r = VIS THEN {"none", "makedirs", "spawn"} ELSE {"none", "spawn"})
           /\ CASE fault = "makedirs" ->
                    Leave(j, tasks, disk, Some(OsError("makedirs")), rmOk, "done")
                [] fault = "spawn" ->
                    Leave(j, T1, D1, Some(OsError("ffmpeg")), rmOk, "done")
                [] OTHER ->
                    Leave(j, T1, D1, None, rmOk, StagePc(1))
    /\ obs' = NoAnswer
    /\ UNCHANGED <<calc, sync, response, runner, now, exits, captured, confirmed>>

\* process.communicate() of stage s returns: exit code rc, error text
\* stderr, and produced says whether the output file was written (a process
\* that exits non-zero is taken to leave no output file)
StageExit(j, rc, produced, stderr, spawnOk, rmOk) ==
    /\ Atomic
    /\ rc # 0 => ~produced
    /\ pc[j] \in {StagePc(1), StagePc(2), StagePc(3)}
    /\ LET r == runner[j]
           s == StageOf(pc[j])
           d == tasks[j].params.task_dir
           D1 == IF produced THEN WriteFile(disk, d, StageOutput(r, s)) ELSE disk
           seen == Exists(D1, d, StageOutput(r, s))
           failed == rc # 0 \/ (ChecksOutput(r, s) /\ ~seen)
       IN  /\ exits' = [exits EXCEPT ![j] = Append(@, rc)]
           /\ captured' = [captured EXCEPT ![j] = IF rc # 0 THEN Some(stderr) ELSE @]
           /\ confirmed' = [confirmed EXCEPT ![j] =
                  IF rc = 0 /\ ChecksOutput(r, s) /\ seen THEN @ \cup {s} ELSE @]
           /\ IF failed
              THEN Leave(j, tasks, D1, Some(StageError(r, s, stderr)), rmOk, "done")
              ELSE IF s < NumStages(r)
              THEN LET T1 == [tasks EXCEPT ![j].progress = Checkpoint(r, s + 1)]
                   IN  IF spawnOk
                       THEN Leave(j, T1, D1, None, rmOk, StagePc(s + 1))
                       ELSE Leave(j, T1, D1, Some(OsError("ffmpeg")), rmOk, "done")
              ELSE Leave(j, [tasks EXCEPT ![j] =
                                CompletedUpdate(tasks[j], OutputPath(tasks[j].params), now)],
                         D1, None, rmOk, "cleanup")
    /\ obs' = NoAnswer
    /\ UNCHANGED <<calc, sync, response, runner, now>>

\* "清理中間檔案": after the COMPLETED update, still inside the try block, each
\* intermediate that exists is deleted with os.remove; faultAt = i is the
\* i-th os.remove raising, 0 is none raising
Cleanup(j, faultAt, rmOk) ==
    /\ pc[j] = "cleanup"
    /\ LET r == runner[j]
           d == tasks[j].params.task_dir
           ints == Intermediates(r)
           raised == faultAt \in 1..Len(ints) /\ Exists(disk, d, ints[faultAt])
           upto == IF raised THEN faultAt - 1 ELSE Len(ints)
           D1 == RemoveFiles(disk, d, {ints[i] : i \in 1..upto})
       IN  /\ faultAt \in 0..Len(ints)
           /\ Leave(j, tasks, D1, IF raised THEN Some(OsError("remove")) ELSE None,
                    rmOk, "done")
    /\ obs' = NoAnswer
    /\ UNCHANGED <<calc, sync, response, runner, now, exits, captured, confirmed>>

\* ---------------------------------------------------------------- sweeper
\* faulty variant of Terminal: only the completed jobs count as over
Terminal_CompletedOnly(rec) == rec.status = COMPLETED

\* task["status"] in [TaskStatus.COMPLETED, TaskStatus.FAILED]
Terminal(rec) == rec.status \in {COMPLETED, FAILED}

\* faulty variant of Sweep: a shutil.rmtree that raises is not caught where it
\* is called and ends the pass in the outer handler, before any record is
\* deleted
Sweep_StopsAtFailure(failDirs) ==
    /\ Atomic
    /\ LET tasks_to_remove ==
               {j \in DOMAIN tasks :
                   /\ Terminal(tasks[j])
                   /\ tasks[j].completed_at # None
                   /\ now - tasks[j].completed_at[1] > RETENTION}
           toDelete ==
               {tasks[j].params.task_dir : j \in
                   {k \in tasks_to_remove :
                       /\ tasks[k].status = COMPLETED
                       /\ tasks[k].output_path # None
                       /\ tasks[k].params.task_dir \in DOMAIN disk}}
       IN  /\ failDirs \subseteq toDelete
           /\ disk' = [x \in DOMAIN disk \ (toDelete \ failDirs) |-> disk[x]]
           /\ rmtreeRaised' = rmtreeRaised \cup failDirs
           /\ tasks' = IF failDirs = {}
                       THEN [j \in DOMAIN tasks \ tasks_to_remove |-> tasks[j]]
                       ELSE tasks
    /\ obs' = NoAnswer
    /\ UNCHANGED <<calc, sync, response, runner, pc, now, exits, captured, confirmed>>

\* one pass of the `while True` body of cleanup_tasks; the dict is walked in
\* insertion order, which is the order of the ids.  failDirs are the
\* directories whose shutil.rmtree raises.
Sweep(failDirs) ==
    /\ Atomic
    /\ LET \* datetime.fromisoformat(None) raises; the pass ends there, in the outer except
           bad == {j \in DOMAIN tasks : Terminal(tasks[j]) /\ tasks[j].completed_at = None}
           tasks_to_remove ==
               {j \in DOMAIN tasks :
                   /\ \A k \in bad : j < k
                   /\ Terminal(tasks[j])
                   /\ now - tasks[j].completed_at[1] > RETENTION}
           toDelete ==
               {tasks[j].params.task_dir : j \in
                   {k \in tasks_to_remove :
                       /\ tasks[k].status = COMPLETED
                       /\ tasks[k].output_path # None
                       /\ tasks[k].params.task_dir \in DOMAIN disk}}
       IN  /\ failDirs \subseteq toDelete
           /\ disk' = [x \in DOMAIN disk \ (toDelete \ failDirs) |-> disk[x]]
           /\ rmtreeRaised' = rmtreeRaised \cup failDirs
           /\ tasks' = IF bad = {}
                       THEN [j \in DOMAIN tasks \ tasks_to_remove |-> tasks[j]]
                       ELSE tasks
    /\ obs' = NoAnswer
    /\ UNCHANGED <<calc, sync, response, runner, pc, now, exits, captured, confirmed>>

\* the wall clock advances.  The program reads the clock only to stamp
\* completed_at and to take now - completed_at, so the clock is left at 0
\* until some record carries a completed_at.
Tick ==
    /\ Atomic
    /\ \E j \in DOMAIN tasks : tasks[j].completed_at # None
    /\ now + TickStep <= MaxTime
    /\ now' = now + TickStep
    /\ obs' = NoAnswer
    /\ UNCHANGED <<calc, sync, response, tasks, runner, pc, disk, exits, captured, confirmed, rmtreeRaised>>

\* --------------------------------------------------------------- pollers
\* GET /task/{task_id}
GetTaskStatus(j) ==
    /\ Atomic
    /\ obs' = IF j \notin DOMAIN tasks
              THEN [op |-> "get_task_status", task_id |-> j, code |-> 404]
              ELSE LET task == tasks[j] IN
                   [op |-> "get_task_status", task_id |-> j, code |-> 200,
                    status |-> task.status, progress |-> task.progress,
                    download_url |-> IF task.status = COMPLETED
                                     THEN Some("/download/" \o ToString(j)) ELSE None,
                    completed_at |-> IF task.status = COMPLETED
                                     THEN task.completed_at ELSE None,
                    error |-> IF task.status = FAILED THEN task.error ELSE None]
    /\ UNCHANGED <<calc, sync, response, tasks, runner, pc, disk, now, exits, captured, confirmed, rmtreeRaised>>

\* GET /download/{task_id}/{filename}: the handler returns a FileResponse for
\* output_path once its two tests have passed
DownloadTaskResult(j) ==
    /\ Atomic
    /\ obs' = IF j \notin DOMAIN tasks \/ tasks[j].status # COMPLETED
              THEN [op |-> "download_task_result", task_id |-> j, code |-> 404,
                    detail |-> "no downloadable file"]
              ELSE LET output_path == tasks[j].output_path IN
                   IF output_path = None
                      \/ ~Exists(disk, tasks[j].params.task_dir, "output")
                   THEN [op |-> "download_task_result", task_id |-> j, code |-> 404,
                         detail |-> "file does not exist", output_path |-> output_path]
                   ELSE [op |-> "download_task_result", task_id |-> j, code |-> 200,
                         output_path |-> output_path]
    /\ response' = [response EXCEPT ![j] = IF obs'.code = 200 THEN "returned" ELSE @]
    /\ UNCHANGED <<calc, sync, tasks, runner, pc, disk, now, exits, captured, confirmed, rmtreeRaised>>

\* the FileResponse returned for job j is sent: the server opens the file at
\* `path` after the handler has returned, at a later turn of the event loop.
\* A file that is there is streamed whole; one that is gone breaks the response.
SendFile(j) ==
    /\ Atomic
    /\ response[j] = "returned"
    /\ response' = [response EXCEPT ![j] =
            IF Exists(disk, TaskDir(j), "output") THEN "sent" ELSE "broken"]
    /\ obs' = NoAnswer
    /\ UNCHANGED <<calc, sync, tasks, runner, pc, disk, now, exits, captured, confirmed, rmtreeRaised>>

\* ------------------------------------------------- synchronous endpoints
\* what the handler writes into UPLOAD_DIR before it starts a process
\* ("temp_dir" of separate_vocals holds its input and, later, its output)
Staged(ep) ==
    CASE ep = "convert_video" -> {"input"}
      [] ep = "create_video_from_images" -> {"temp_image_dir", "audio"}
      [] ep = "add_subtitle" -> {"video", "subtitle"}
      [] ep = "create_waveform" -> {"audio"}
      [] ep = "create_spectrogram" -> {"audio"}
      [] ep = "create_audio_visualization" -> {"temp_image_dir", "audio"}
      [] ep = "separate_vocals" -> {"temp_dir"}
      [] OTHER -> {"tmp"}

\* external processes the handler runs, one after the other
NumProcs(ep) == IF ep = "create_audio_visualization" THEN 2 ELSE 1

\* ffmpeg.run and subprocess.run return when the process has exited; the
\* other handlers await asyncio's create_subprocess_exec / communicate
Blocking(ep) == ep \in {"convert_video", "get_audio_duration"}

\* the file the k-th process of the handler is told to write
ProcOutput(ep, k) ==
    IF ep = "create_audio_visualization" /\ k = 1 THEN "bg_video" ELSE "output"

\* whether the handler tests os.path.exists on that file after the process
ChecksFile(ep) ==
    ep \in {"create_video_from_images", "create_audio_visualization", "separate_vocals"}

\* the part of the command line that depends on the request: the filter
\* chain separate_vocals picks with `if vocal_type == "vocals": ... else: ...`,
\* and the start of the fade-out, st = duration_per_image - transition_duration
Command(ep, args) ==
    CASE ep = "separate_vocals" ->
            [program |-> "ffmpeg",
             filter |-> IF args.vocal_type = "vocals" THEN "vocals" ELSE "instrumental"]
      [] ep = "create_video_from_images" ->
            [program |-> "ffmpeg",
             st |-> args.duration_per_image - args.transition_duration]
      [] ep = "get_audio_duration" -> [program |-> "ffprobe"]
      [] OTHER -> [program |-> "ffmpeg"]

\* what the `except` (or `finally`) of the handler deletes
FailureCleanup(ep) ==
    CASE ep = "convert_video" -> {"input", "output"}
      [] ep = "create_video_from_images" -> {"temp_image_dir", "audio", "output"}
      [] ep = "add_subtitle" -> {"video", "subtitle", "output"}
      [] ep = "create_waveform" -> {"audio", "output"}
      [] ep = "create_spectrogram" -> {"audio", "output"}
      [] ep = "create_audio_visualization" -> {"audio", "bg_video", "output", "temp_image_dir"}
      [] ep = "separate_vocals" -> {"temp_dir", "output"}
      [] OTHER -> {"tmp"}

\* what the handler deletes on its way out after the last process succeeded:
\* create_video_from_images before it builds the response, convert_video and
\* get_audio_duration in their `finally`, which runs as the handler returns
ReturnCleanup(ep) ==
    CASE ep = "convert_video" -> {"input", "output"}
      [] ep = "create_video_from_images" -> {"temp_image_dir", "audio"}
      [] ep = "get_audio_duration" -> {"tmp"}
      [] OTHER -> {}

\* what response.background deletes once the response has been sent
BackgroundCleanup(ep) ==
    CASE ep = "create_video_from_images" -> {"output"}
      [] ep = "add_subtitle" -> {"video", "subtitle", "output"}
      [] ep = "create_waveform" -> {"audio", "output"}
      [] ep = "create_spectrogram" -> {"audio", "output"}
      [] ep = "create_audio_visualization" -> {"output"}
      [] ep = "separate_vocals" -> {"temp_dir", "output"}
      [] OTHER -> {}

\* the request arrives: the handler stores the uploads, builds the command
\* and starts its first process
SyncReceive(ep, args) ==
    /\ Atomic
    /\ sync.pc = "idle"
    /\ args \in Args(ep)
    /\ sync' =
        IF ep = "create_audio_visualization" /\ args.images = 0
        THEN \* raise Exception("未上傳任何背景圖片"), handled by the except block
             [NoRequest EXCEPT !.ep = ep, !.pc = "finished", !.args = args,
                               !.files = Staged(ep) \ FailureCleanup(ep),
                               !.response = "error"]
        ELSE [NoRequest EXCEPT !.ep = ep,
                               !.pc = IF Blocking(ep) THEN "run" ELSE "await",
                               !.args = args, !.proc = 1, !.files = Staged(ep),
                               !.cmd = Some(Command(ep, args)), !.ok = TRUE]
    /\ obs' = NoAnswer
    /\ UNCHANGED <<calc, tasks, runner, pc, disk, now, response, exits, captured, confirmed,
                   rmtreeRaised>>

\* the process the handler waits for exits with code rc; produced says
\* whether it wrote its output (for ffprobe: whether it printed a duration)
SyncProcExit(rc, produced) ==
    /\ sync.pc = "run" \/ (sync.pc = "await" /\ Atomic)
    /\ rc # 0 => ~produced
    /\ LET ep == sync.ep
           k == sync.proc
           F1 == IF produced /\ ep # "get_audio_duration"
                 THEN sync.files \cup {ProcOutput(ep, k)} ELSE sync.files
           seen == IF ep = "get_audio_duration" THEN produced
                   ELSE ChecksFile(ep) => ProcOutput(ep, k) \in F1
       IN  sync' =
            IF rc # 0 \/ ~seen
            THEN [sync EXCEPT !.pc = "finished", !.response = "error", !.ok = FALSE,
                              !.files = F1 \ FailureCleanup(ep)]
            ELSE IF k < NumProcs(ep)
            THEN [sync EXCEPT !.proc = k + 1, !.files = F1, !.ok = @ /\ produced,
                              !.cmd = Some(Command(ep, sync.args))]
            ELSE IF ep = "get_audio_duration"
            THEN [sync EXCEPT !.pc = "finished", !.response = "json",
                              !.files = F1 \ ReturnCleanup(ep)]
            ELSE [sync EXCEPT !.pc = "responding", !.response = "returned",
                              !.ok = @ /\ produced, !.files = F1 \ ReturnCleanup(ep)]
    /\ obs' = NoAnswer
    /\ UNCHANGED <<calc, tasks, runner, pc, disk, now, response, exits, captured, confirmed,
                   rmtreeRaised>>

\* the FileResponse the handler returned is sent: the server opens the output
\* file, streams it and then runs response.background; when the file is not
\* there the response breaks and the background task is not run
SyncSend ==
    /\ Atomic
    /\ sync.pc = "responding"
    /\ sync' =
        IF "output" \in sync.files
        THEN [sync EXCEPT !.pc = "finished", !.response = "streamed",
                          !.files = @ \ BackgroundCleanup(sync.ep)]
        ELSE [sync EXCEPT !.pc = "finished", !.response = "broken"]
    /\ obs' = NoAnswer
    /\ UNCHANGED <<calc, tasks, runner, pc, disk, now, response, exits, captured, confirmed,
                   rmtreeRaised>>

\* --------------------------------------------------------- pure functions
\* A Python str is the sequence of its characters.
HexDigits == <<"0", "1", "2", "3", "4", "5", "6", "7", "8", "9", "A", "B", "C", "D", "E", "F">>
UpperCase == <<"A", "B", "C", "D", "E", "F", "G", "H", "I", "J", "K", "L", "M",
               "N", "O", "P", "Q", "R", "S", "T", "U", "V", "W", "X", "Y", "Z">>
LowerCase == <<"a", "b", "c", "d", "e", "f", "g", "h", "i", "j", "k", "l", "m",
               "n", "o", "p", "q", "r", "s", "t", "u", "v", "w", "x", "y", "z">>

\* str.lower()
LowerChar(c) ==
    IF \E i \in 1..26 : UpperCase[i] = c
    THEN LowerCase[CHOOSE i \in 1..26 : UpperCase[i] = c]
    ELSE c
Lower(str) == [i \in 1..Len(str) |-> LowerChar(str[i])]

\* format(n, '02X') for 0 <= n <= 255
Format02X(n) == <<HexDigits[(n \div 16) + 1], HexDigits[(n % 16) + 1]>>

\* the nested rgb_to_bgr of font_color_to_ass_color
rgb_to_bgr(color_hex) ==
    IF Len(color_hex) = 6
    THEN SubSeq(color_hex, 5, 6) \o SubSeq(color_hex, 3, 4) \o SubSeq(color_hex, 1, 2)
    ELSE color_hex

color_map ==
    (<<"w", "h", "i", "t", "e">> :> <<"F", "F", "F", "F", "F", "F">>)
        @@ (<<"b", "l", "a", "c", "k">> :> <<"0", "0", "0", "0", "0", "0">>)
        @@ (<<"r", "e", "d">> :> <<"F", "F", "0", "0", "0", "0">>)
        @@ (<<"g", "r", "e", "e", "n">> :> <<"0", "0", "F", "F", "0", "0">>)
        @@ (<<"b", "l", "u", "e">> :> <<"0", "0", "0", "0", "F", "F">>)
        @@ (<<"y", "e", "l", "l", "o", "w">> :> <<"F", "F", "F", "F", "0", "0">>)

\* the colour arguments the function is called with here: palette names in
\* several letter cases, '#' strings of six hex digits, '#' strings that are
\* not six hex digits, and tokens that are neither
ColorTokens ==
    {<<"w", "h", "i", "t", "e">>,
     <<"W", "h", "i", "t", "e">>,
     <<"B", "L", "A", "C", "K">>,
     <<"R", "e", "d">>,
     <<"g", "r", "e", "e", "n">>,
     <<"b", "l", "u", "e">>,
     <<"Y", "E", "L", "L", "O", "W">>,
     <<"#", "F", "F", "0", "0", "0", "0">>,
     <<"#", "0", "0", "f", "f", "7", "F">>,
     <<"#", "1", "2", "A", "B", "9", "c">>,
     <<"#", "F", "F", "F">>,
     <<"#", "G", "G", "G", "G", "G", "G">>,
     <<"#">>,
     <<"F", "F", "0", "0", "0", "0">>,
     <<"p", "i", "n", "k">>,
     <<>>}

\* int(x) for the x = num / den >= 0 it is applied to: the integer part
IntPart(num, den) == num \div den

\* int(255 * (1 - alpha)) for alpha = a / AlphaGrid, in exact arithmetic
AlphaByte(a) == IntPart(255 * (AlphaGrid - a), AlphaGrid)

\* font_color_to_ass_color(color, alpha) with alpha = a / AlphaGrid
font_color_to_ass_color(color, a) ==
    LET color_hex == IF Lower(color) \in DOMAIN color_map THEN color_map[Lower(color)]
                     ELSE IF Len(color) > 0 /\ color[1] = "#" THEN Tail(color)
                     ELSE <<"F", "F", "F", "F", "F", "F">>
        alpha_hex == Format02X(AlphaByte(a))
    IN  alpha_hex \o rgb_to_bgr(color_hex)

CallColor(color, a) ==
    /\ calc = NoCall
    /\ calc' = [fn |-> "font_color_to_ass_color", color |-> color, alpha |-> a,
                val |-> font_color_to_ass_color(color, a)]
    /\ UNCHANGED <<tasks, runner, pc, disk, now, obs, sync, response, exits, captured,
                   confirmed, rmtreeRaised>>

\* the characters of the paths: a letter, the colon, the two separators
PathChars == {"C", "a", ":", "\\", "/"}

Paths == UNION {[1..n -> PathChars] : n \in 0..MaxPathLen}

\* str.replace(old, new) for a one-character old
RECURSIVE Replace(_, _, _)
Replace(str, old, new) ==
    IF str = <<>> THEN <<>>
    ELSE (IF Head(str) = old THEN new ELSE <<Head(str)>>) \o Replace(Tail(str), old, new)

\* escape_ffmpeg_path(path): path.split(":", 1) cuts at the first colon
escape_ffmpeg_path(path) ==
    LET p == Replace(path, "\\", <<"/">>)
    IN  IF \E i \in 1..Len(p) : p[i] = ":"
        THEN LET k == CHOOSE i \in 1..Len(p) : p[i] = ":" /\ \A h \in 1..(i - 1) : p[h] # ":"
                 drive == SubSeq(p, 1, k - 1)
                 rest == SubSeq(p, k + 1, Len(p))
             IN  drive \o <<"\\", ":">> \o rest
        ELSE p

\* subtitle_path.replace('\\', '/').replace(':', '\\:') of add_subtitle
InlineEscape(path) == Replace(Replace(path, "\\", <<"/">>), ":", <<"\\", ":">>)

CallEscape(path) ==
    /\ calc = NoCall
    /\ calc' = [fn |-> "escape_ffmpeg_path", path |-> path, val |-> escape_ffmpeg_path(path)]
    /\ UNCHANGED <<tasks, runner, pc, disk, now, obs, sync, response, exits, captured,
                   confirmed, rmtreeRaised>>

CallInlineEscape(path) ==
    /\ calc = NoCall
    /\ calc' = [fn |-> "add_subtitle.safe_subtitle_path", path |-> path,
                val |-> InlineEscape(path)]
    /\ UNCHANGED <<tasks, runner, pc, disk, now, obs, sync, response, exits, captured,
                   confirmed, rmtreeRaised>>

\* ------------------------------------------------- image-sequence graphs
\* the two functions that build the fade/concat graph of an image sequence
GraphBuilders == {"create_video_from_images", "process_video_with_subtitle_task"}

\* random.choice([...]) of process_video_with_subtitle_task
RandomChoices ==
    {"fade", "dissolve", "wipeleft", "wiperight", "wipeup", "wipedown",
     "circleopen", "circleclose", "pixelize"}

\* values of the transition_type parameter: no handler restricts the string
TransitionTypes == RandomChoices \cup {"random", "slide"}

\* the transitions the if/elif chain of a builder has a branch for
Branches(builder) ==
    IF builder = "create_video_from_images" THEN {"fade", "dissolve"} ELSE RandomChoices

\* the ffmpeg filter a branch writes
FilterOf(this_transition) ==
    CASE this_transition = "fade" -> "fade"
      [] this_transition = "dissolve" -> "format=rgba,fade:alpha=1"
      [] this_transition \in {"wipeleft", "wiperight", "wipeup", "wipedown"} -> "wipe"
      [] this_transition = "circleopen" -> "circleout"
      [] this_transition = "circleclose" -> "circlein"
      [] OTHER -> "pixelize"

\* faulty variant of SegmentFilters: the last image is looked for at index n
SegmentFilters_LastAtN(this_transition, i, n, d, t) ==
    LET in == [filter |-> FilterOf(this_transition), t |-> "in", st |-> 0, d |-> t]
        out == [filter |-> FilterOf(this_transition), t |-> "out", st |-> d - t, d |-> t]
    IN  IF i = 0 THEN <<out>> ELSE IF i = n THEN <<in>> ELSE <<in, out>>

\* the filters between [scaled{i}] and [v{i}]: `if i == 0: ... elif i ==
\* len(images) - 1: ... else: ...`, with d = duration_per_image and
\* t = transition_duration
SegmentFilters(this_transition, i, n, d, t) ==
    LET in == [filter |-> FilterOf(this_transition), t |-> "in", st |-> 0, d |-> t]
        out == [filter |-> FilterOf(this_transition), t |-> "out", st |-> d - t, d |-> t]
    IN  IF i = 0 THEN <<out>> ELSE IF i = n - 1 THEN <<in>> ELSE <<in, out>>

\* the fragments the loop appends for the images i .. n-1; pick[i] is the
\* result of random.choice for image i
RECURSIVE LoopFragments(_, _, _, _, _, _, _)
LoopFragments(builder, transition_type, pick, i, n, d, t) ==
    IF i >= n THEN <<>>
    ELSE LET this_transition ==
                 IF builder = "process_video_with_subtitle_task" /\ transition_type = "random"
                 THEN pick[i] ELSE transition_type
             scaled == [ins |-> <<<<"in", i>>>>, filters |-> <<[filter |-> "scale,pad"]>>,
                        out |-> <<"scaled", i>>]
             segment == [ins |-> <<<<"scaled", i>>>>,
                         filters |-> SegmentFilters(this_transition, i, n, d, t),
                         out |-> <<"v", i>>]
         IN  <<scaled>>
             \o (IF this_transition \in Branches(builder) THEN <<segment>> ELSE <<>>)
             \o LoopFragments(builder, transition_type, pick, i + 1, n, d, t)

\* filter_complex: the loop's fragments and then the concat node over
\* [v0]..[v{n-1}]
FilterComplex(builder, transition_type, pick, n, d, t) ==
    LoopFragments(builder, transition_type, pick, 0, n, d, t)
    \o <<[ins |-> [k \in 1..n |-> <<"v", k - 1>>],
          filters |-> <<[filter |-> "concat", n |-> n]>>,
          out |-> <<"outv", 0>>]>>

\* the results of random.choice for n images
Picks(transition_type, n) ==
    IF transition_type = "random" THEN [0..(n - 1) -> RandomChoices]
    ELSE {[i \in 0..(n - 1) |-> transition_type]}

\* ("random" is one more string without a branch for create_video_from_images;
\* "slide" stands for those)
CallFilterComplex(builder, transition_type, pick, n, d, t) ==
    /\ calc = NoCall
    /\ pick \in Picks(transition_type, n)
    /\ builder = "create_video_from_images" => transition_type # "random"
    /\ calc' = [fn |-> "filter_complex", builder |-> builder,
                transition_type |-> transition_type, pick |-> pick, n |-> n,
                duration_per_image |-> d, transition_duration |-> t,
                val |-> FilterComplex(builder, transition_type, pick, n, d, t)]
    /\ UNCHANGED <<tasks, runner, pc, disk, now, obs, sync, response, exits, captured,
                   confirmed, rmtreeRaised>>

\* ------------------------------------------------ admission of the images
\* the handlers that take a list of images
ImageHandlers ==
    {"create_video_from_images", "create_audio_visualization",
     "create_audio_visualization_with_subtitle", "create_video_with_subtitle_async"}

\* the first two take the images as a required upload field, `File(...)`,
\* the other two list a directory and take image_limit
TakesUploads(handler) ==
    handler \in {"create_video_from_images", "create_audio_visualization"}

\* values of image_limit: Optional[int]
ImageLimits == {None} \cup {Some(k) : k \in -1..MaxImages}

\* len(image_files[:image_limit]) for a list of n files
SliceLen(n, image_limit) ==
    IF image_limit = None THEN n
    ELSE LET k == image_limit[1]
         IN  IF k >= 0 THEN (IF k < n THEN k ELSE n)
             ELSE (IF n + k > 0 THEN n + k ELSE 0)

\* the concat node of the background video of create_audio_visualization and
\* of process_visualization_task
BackgroundConcat(n) == [filter |-> "concat", n |-> n]

\* what the handler does with n uploaded or listed images: it raises
\* ("rejected") or goes on to its external process or to the creation of the
\* job, whose runner builds the concat node over the images kept
Admit(handler, n, image_limit) ==
    LET kept == IF TakesUploads(handler) THEN n ELSE SliceLen(n, image_limit)
        graph == FilterComplex(IF handler = "create_video_from_images"
                               THEN handler ELSE "process_video_with_subtitle_task",
                               "fade", [i \in 0..(kept - 1) |-> "fade"], kept,
                               MaxDuration, 1)
        concat == IF handler \in {"create_video_from_images",
                                  "create_video_with_subtitle_async"}
                  THEN graph[Len(graph)].filters[1]
                  ELSE BackgroundConcat(kept)
    IN  CASE handler = "create_video_from_images" ->
                [outcome |-> "process_invoked", images |-> kept, concat |-> concat]
          [] handler = "create_audio_visualization" ->
                IF n = 0 THEN [outcome |-> "rejected", images |-> kept]
                ELSE [outcome |-> "process_invoked", images |-> kept, concat |-> concat]
          [] handler = "create_audio_visualization_with_subtitle" ->
                IF n = 0 \/ kept = 0 THEN [outcome |-> "rejected", images |-> kept]
                ELSE [outcome |-> "job_created", images |-> kept, concat |-> concat]
          [] OTHER ->
                IF n = 0 THEN [outcome |-> "rejected", images |-> kept]
                ELSE [outcome |-> "job_created", images |-> kept, concat |-> concat]

CallAdmit(handler, n, image_limit) ==
    /\ calc = NoCall
    /\ TakesUploads(handler) => (n >= 1 /\ image_limit = None)
    /\ calc' = [fn |-> "admit", handler |-> handler, n |-> n, image_limit |-> image_limit,
                val |-> Admit(handler, n, image_limit)]
    /\ UNCHANGED <<tasks, runner, pc, disk, now, obs, sync, response, exits, captured,
                   confirmed, rmtreeRaised>>

\* ----------------------------------------------------------- specification
RunnerStep(j) ==
    \/ Start(j)
    \/ \E fault \in {"none", "makedirs", "spawn"}, rmOk \in BOOLEAN : Setup(j, fault, rmOk)
    \/ \E rc \in {0, 1}, produced \in BOOLEAN, stderr \in StderrTexts,
          spawnOk \in BOOLEAN, rmOk \in BOOLEAN :
            StageExit(j, rc, produced, stderr, spawnOk, rmOk)
    \/ \E faultAt \in 0..2, rmOk \in BOOLEAN : Cleanup(j, faultAt, rmOk)

\* the steps that write the dict, the disk or the clock
Work ==
    \/ \E r \in Runners : \E outcome \in SubmitOutcomes(r) : Submit(r, outcome)
    \/ \E j \in DOMAIN pc : RunnerStep(j)
    \/ \E failDirs \in SUBSET {TaskDir(j) : j \in DOMAIN pc} : Sweep(failDirs)
    \/ Tick

Next ==
    \/ Work
    \/ \E j \in DOMAIN pc : GetTaskStatus(j)
    \/ \E j \in DOMAIN pc : DownloadTaskResult(j)
    \/ \E j \in DOMAIN pc : SendFile(j)

Spec == Init /\ [][Next]_vars

\* the steps of a request to a synchronous endpoint
SyncStep ==
    \/ \E ep \in Endpoints : \E args \in Args(ep) : SyncReceive(ep, args)
    \/ \E rc \in {0, 1}, produced \in BOOLEAN : SyncProcExit(rc, produced)
    \/ SyncSend

\* calls of the pure helper functions, with arguments from bounded sets
CalcStep ==
    /\ calc = NoCall
    /\ \/ \E color \in ColorTokens, a \in 0..AlphaGrid : CallColor(color, a)
       \/ \E path \in Paths : CallEscape(path)
       \/ \E path \in Paths : CallInlineEscape(path)
       \/ \E handler \in ImageHandlers, n \in 0..MaxImages, image_limit \in ImageLimits :
               CallAdmit(handler, n, image_limit)
       \/ \E builder \in GraphBuilders, transition_type \in TransitionTypes, n \in 0..MaxImages,
             d \in 1..MaxDuration, t \in 1..MaxDuration :
               \E pick \in Picks(transition_type, n) :
                   CallFilterComplex(builder, transition_type, pick, n, d, t)

CalcSpec == Init /\ [][CalcStep]_vars

\* the jobs, the pollers, the sweeper and a request to a synchronous endpoint
\* on the one event loop
LoopSpec == Init /\ [][Next \/ SyncStep]_vars

\* several jobs at once: one task id more than Spec has, everything else as
\* in Spec
PairIds == 1..(MaxJobs + 1)

PairInit ==
    /\ tasks = <<>>
    /\ runner = [j \in PairIds |-> "none"]
    /\ pc = [j \in PairIds |-> "idle"]
    /\ disk = <<>>
    /\ now = 0
    /\ obs = NoAnswer
    /\ sync = NoRequest
    /\ calc = NoCall
    /\ response = [j \in PairIds |-> "none"]
    /\ exits = [j \in PairIds |-> <<>>]
    /\ captured = [j \in PairIds |-> None]
    /\ confirmed = [j \in PairIds |-> {}]
    /\ rmtreeRaised = {}

PairSpec == PairInit /\ [][Next]_vars

\* the event loop runs every scheduled coroutine and every external process
\* exits: each enabled step of a runner is eventually taken.  The polling
\* requests write nothing but their answer and are left out of the run.
LiveSpec == Init /\ [][Work]_vars /\ \A j \in Ids : WF_vars(RunnerStep(j))

TypeOK ==
    /\ DOMAIN tasks \subseteq Ids
    /\ \A j \in DOMAIN tasks :
        /\ tasks[j].status \in TaskStatus
        /\ tasks[j].progress \in 0..100
    /\ pc \in [Ids -> {"idle", "rejected", "errored", "scheduled", "started", "stage1", "stage2", "stage3",
                       "cleanup", "done"}]
    /\ now \in 0..MaxTime
    /\ response \in [Ids -> {"none", "returned", "sent", "broken"}]
    /\ sync.ep \in Endpoints \cup {"none"}
    /\ sync.pc \in {"idle", "run", "await", "responding", "finished"}
    /\ sync.response \in {"none", "error", "json", "returned", "streamed", "broken"}

\* =================================================================== claims

\* C1: every change of a record's status is pending -> processing,
\* processing -> completed or processing -> failed; in particular no step
\* changes the status of a completed or failed job.
C1_StatusTransitions ==
    [][\A j \in DOMAIN tasks \cap DOMAIN tasks' :
          tasks'[j].status # tasks[j].status =>
              <<tasks[j].status, tasks'[j].status>> \in
                  {<<PENDING, PROCESSING>>, <<PROCESSING, COMPLETED>>,
                   <<PROCESSING, FAILED>>}]_vars

\* C2: output_path is set exactly on the completed jobs.
C2_OutputPathIffCompleted ==
    \A j \in DOMAIN tasks :
        (tasks[j].output_path # None) <=> (tasks[j].status = COMPLETED)

\* C3: error is set exactly on the failed jobs, and completed_at is set
\* exactly on the completed and the failed jobs.
C3_ErrorAndCompletedAt ==
    \A j \in DOMAIN tasks :
        /\ (tasks[j].error # None) <=> (tasks[j].status = FAILED)
        /\ (tasks[j].completed_at # None) <=> (tasks[j].status \in {COMPLETED, FAILED})

\* a job on record that failed, here after it had been marked completed
C3_Witness ==
    \E j \in DOMAIN tasks :
        /\ pc[j] = "done"
        /\ tasks[j].status = FAILED
        /\ tasks[j].progress = 100
        /\ tasks[j].error # None
        /\ tasks[j].completed_at # None

\* C4: a polling request never answers from a half-written record: a status
\* answer that says completed carries progress 100 and the completion time,
\* and a download that passes the status test reads an output_path.
C4_NoTornRead ==
    /\ (obs.op = "get_task_status" /\ obs.code = 200 /\ obs.status = COMPLETED)
          => (obs.progress = 100 /\ obs.completed_at # None
              /\ obs.task_id \in DOMAIN tasks
              /\ tasks[obs.task_id].output_path # None)
    /\ (obs.op = "download_task_result" /\ "output_path" \in DOMAIN obs)
          => obs.output_path # None

\* a download request has passed the status test of a completed job
C4_Witness ==
    /\ obs.op = "download_task_result"
    /\ obs.code = 200
    /\ \E j \in DOMAIN tasks : tasks[j].status = COMPLETED /\ pc[j] = "done"

\* C5: every job whose runner was scheduled reaches completed or failed.
C5_EventuallyTerminal ==
    \A j \in Ids :
        (pc[j] = "scheduled") ~> (j \in DOMAIN tasks /\ Terminal(tasks[j]))

\* a job failed by an exception that no exit test of the runner raised
C5_Witness ==
    \E j \in DOMAIN tasks :
        /\ pc[j] = "done"
        /\ tasks[j].status = FAILED
        /\ tasks[j].error = Some(OsError("ffmpeg"))

\* C6: a completed job has run every stage of its pipeline with exit code 0
\* and the runner has seen each stage's output file exist.
C6_CompletedOnlyIfConfirmed ==
    \A j \in DOMAIN tasks :
        tasks[j].status = COMPLETED =>
            /\ Len(exits[j]) = NumStages(runner[j])
            /\ \A s \in 1..Len(exits[j]) : exits[j][s] = 0
            /\ confirmed[j] = 1..NumStages(runner[j])

\* C7: a job whose runner is scheduled and has not started has its record,
\* which is pending with progress 0 and no output_path, error or completed_at.
C7_SubmittedIsPending ==
    \A j \in Ids :
        pc[j] = "scheduled" =>
            /\ j \in DOMAIN tasks
            /\ tasks[j].status = PENDING
            /\ tasks[j].progress = 0
            /\ tasks[j].output_path = None
            /\ tasks[j].error = None
            /\ tasks[j].completed_at = None
            /\ runner[j] \in Runners

\* a submission has returned and its runner has not started yet
C7_Witness ==
    \E j \in Ids : pc[j] = "scheduled" /\ j \in DOMAIN tasks

\* C8: once the runner is over, a record that is still kept is completed with
\* a non-empty output_path and progress 100, or failed with a non-empty error.
C8_AfterRunner ==
    \A j \in DOMAIN tasks :
        pc[j] = "done" =>
            \/ /\ tasks[j].status = COMPLETED
               /\ tasks[j].output_path # None
               /\ tasks[j].output_path[1] # ""
               /\ tasks[j].progress = 100
            \/ /\ tasks[j].status = FAILED
               /\ tasks[j].error # None
               /\ tasks[j].error[1] # ""

\* a runner is over with its job completed and the result file on disk
C8_Witness ==
    \E j \in DOMAIN tasks :
        /\ pc[j] = "done"
        /\ tasks[j].status = COMPLETED
        /\ Exists(disk, tasks[j].params.task_dir, "output")

\* the checkpoints of the two runners, in the order they are written
ProgressSteps(r) ==
    IF r = VIS
    THEN {<<0, 10>>, <<10, 40>>, <<40, 70>>, <<70, 100>>}
    ELSE {<<0, 10>>, <<10, 60>>, <<60, 100>>}

\* C9: progress stays in 0..100, never decreases, and changes only from one
\* checkpoint of the job's runner to the next one; the update that marks the
\* job failed keeps the progress of the last checkpoint.
C9_ProgressMonotone ==
    [][\A j \in DOMAIN tasks \cap DOMAIN tasks' :
          /\ tasks'[j].progress \in 0..100
          /\ tasks'[j].progress >= tasks[j].progress
          /\ tasks'[j].progress # tasks[j].progress =>
                <<tasks[j].progress, tasks'[j].progress>> \in ProgressSteps(runner[j])
          /\ (tasks[j].status = COMPLETED /\ tasks'[j].status = FAILED) =>
                tasks'[j].progress = tasks[j].progress]_vars

\* a job failed after its second checkpoint
C9_Witness ==
    \E j \in DOMAIN tasks :
        /\ tasks[j].status = FAILED
        /\ tasks[j].progress \in {40, 60, 70}

\* some stage of job j exited non-zero
StageFailed(j) == \E s \in 1..Len(exits[j]) : exits[j][s] # 0

StageLabels ==
    {"", "subtitle burn failed: ", "video composition failed: ", "add subtitle failed: "}

\* C11: after a stage exited non-zero, the error kept on the failed job is
\* the error output captured from that process (alone or behind the stage's
\* label), whichever stage it was.
C11_ErrorIsCapturedStderr ==
    \A j \in DOMAIN tasks :
        (pc[j] = "done" /\ captured[j] # None) =>
            /\ tasks[j].status = FAILED
            /\ tasks[j].error # None
            /\ \E label \in StageLabels : tasks[j].error[1] = label \o captured[j][1]

\* a step of the sweeper
SweepStep == \E failDirs \in SUBSET {TaskDir(j) : j \in DOMAIN pc} : Sweep(failDirs)

\* C12: a sweep removes from `tasks` every completed or failed job whose
\* completed_at lies more than 3600 s before the sweep and keeps every other
\* record as it is; a polling request answers 404 exactly for the ids that
\* are not in `tasks`.
C12_SweepReclaimsOld ==
    [][/\ SweepStep =>
            \A j \in DOMAIN tasks :
                IF /\ tasks[j].status \in {COMPLETED, FAILED}
                   /\ now - tasks[j].completed_at[1] > 3600
                THEN j \notin DOMAIN tasks'
                ELSE j \in DOMAIN tasks' /\ tasks'[j] = tasks[j]
       /\ obs'.op \in {"get_task_status", "download_task_result"} =>
            /\ obs'.task_id \notin DOMAIN tasks' => obs'.code = 404
            /\ (obs'.op = "get_task_status" /\ obs'.task_id \in DOMAIN tasks')
                    => (obs'.code = 200 /\ obs'.status = tasks'[obs'.task_id].status)]_vars

\* a failed job has been reclaimed and a status request for it was answered
\* with 404
C12_Witness ==
    /\ obs.op = "get_task_status"
    /\ obs.code = 404
    /\ pc[obs.task_id] = "done"
    /\ captured[obs.task_id] # None
    /\ now = 2 * 3600

\* C13: when a sweep removes the record of a job, completed or failed, the
\* job's working directory is not on disk afterwards (stated here with the
\* one allowance that the sweeper's own shutil.rmtree raised on it).
C13_SweepRemovesDirectory ==
    [][SweepStep =>
          \A j \in DOMAIN tasks \ DOMAIN tasks' :
              LET d == tasks[j].params.task_dir
              IN  d \in DOMAIN disk' =>
                      (tasks[j].status = COMPLETED /\ d \in rmtreeRaised' \ rmtreeRaised)]_vars

\* C14: a download request is answered with not-found or its file is served
\* whole, however the request interleaves with the sweeper: no response that
\* passed the handler's existence test finds the file deleted when it is sent.
C14_DownloadNeverBroken ==
    \A j \in Ids : response[j] # "broken"

\* C15: a submission rejected by validation leaves nothing behind: no record
\* of the job, no working directory (and so no staged file in it), and no
\* list file of an ffmpeg run.
C15_RejectedLeavesNothing ==
    \A j \in Ids :
        pc[j] = "rejected" =>
            /\ j \notin DOMAIN tasks
            /\ TaskDir(j) \notin DOMAIN disk
            /\ \A d \in DOMAIN disk : "concat_list.txt" \notin disk[d]

\* C16: once a request to a synchronous endpoint is over, whether it
\* succeeded or failed, none of the files and directories it created is left
\* (stated here for the requests whose response did not break while it was
\* sent).
C16_NoTempFilesLeft ==
    (sync.pc = "finished" /\ sync.response # "broken") => sync.files = {}

\* C17: when every process of the request exited 0 and wrote its file, the
\* output file is still there when the response is sent: the response is
\* streamed (or, for get_audio_duration, the JSON answer is returned).
C17_OutputThereWhenSent ==
    (sync.pc = "finished" /\ sync.ok) => sync.response \in {"streamed", "json"}

\* C18: while a synchronous endpoint waits for its external process, a
\* scheduled or running job's runner, the sweeper and a polling request can
\* each take their next step.
C18_WaitBlocksOnlyCaller ==
    (sync.pc \in {"run", "await"} /\ NoRunnerMidStep) =>
        /\ \A j \in Ids :
              pc[j] \in {"scheduled", "stage1", "stage2", "stage3"} => ENABLED RunnerStep(j)
        /\ ENABLED SweepStep
        /\ \A j \in Ids : ENABLED GetTaskStatus(j)

\* C19: a separate_vocals request whose vocal_type is neither "vocals" nor
\* "instrumental" starts no external process and is answered with an error.
C19_OtherVocalTypeRejected ==
    (sync.ep = "separate_vocals" /\ sync.args.vocal_type \notin {"vocals", "instrumental"}) =>
        /\ sync.cmd = None
        /\ sync.pc = "finished" => sync.response = "error"

\* C20: create_video_from_images starts no external process when
\* transition_duration >= duration_per_image: no command whose fade-out
\* starts at zero or at a negative time is passed to a process.
C20_NoNonPositiveWindow ==
    sync.ep = "create_video_from_images" =>
        /\ sync.args.transition_duration >= sync.args.duration_per_image => sync.cmd = None
        /\ sync.cmd # None => sync.cmd[1].st > 0

\* a hexadecimal digit, in either letter case
IsHexDigit(c) ==
    \/ \E i \in 1..16 : HexDigits[i] = c
    \/ c \in {"a", "b", "c", "d", "e", "f"}

\* the colour is a palette name in some letter case, or '#' and six hex digits
KnownColor(color) ==
    \/ Lower(color) \in DOMAIN color_map
    \/ /\ Len(color) = 7
       /\ color[1] = "#"
       /\ \A i \in 2..7 : IsHexDigit(color[i])

\* C23: for a palette name or a '#RRGGBB' string the result is 8 hex digits,
\* the alpha byte and then blue, green, red; for every other token it is the
\* result for "white"; alpha 1.0 gives the alpha byte 00 and alpha 0.0 gives FF.
C23_ColorIsEightHexDigits ==
    calc.fn = "font_color_to_ass_color" =>
        LET rgb == IF Lower(calc.color) \in DOMAIN color_map
                   THEN color_map[Lower(calc.color)] ELSE Tail(calc.color)
        IN  /\ KnownColor(calc.color) =>
                /\ Len(calc.val) = 8
                /\ \A i \in 1..8 : IsHexDigit(calc.val[i])
                /\ SubSeq(calc.val, 3, 8) = <<rgb[5], rgb[6], rgb[3], rgb[4], rgb[1], rgb[2]>>
            /\ ~KnownColor(calc.color) =>
                calc.val = font_color_to_ass_color(<<"w", "h", "i", "t", "e">>, calc.alpha)
            /\ calc.alpha = AlphaGrid => SubSeq(calc.val, 1, 2) = <<"0", "0">>
            /\ calc.alpha = 0 => SubSeq(calc.val, 1, 2) = <<"F", "F">>

\* round(num / den) for num / den >= 0, to the nearest integer
Nearest(num, den) == (2 * num + den) \div (2 * den)

\* C28: the alpha byte is round(255 * (1 - alpha)) as two uppercase hex
\* digits, for every alpha of the grid.
C28_AlphaByteRounded ==
    calc.fn = "font_color_to_ass_color" =>
        SubSeq(calc.val, 1, 2) = Format02X(Nearest(255 * (AlphaGrid - calc.alpha), AlphaGrid))

\* C24: an escaped path has no backslash other than the one that escapes a
\* colon, and no colon without that backslash right in front of it.
C24_EscapedPathIsSafe ==
    calc.fn \in {"escape_ffmpeg_path", "add_subtitle.safe_subtitle_path"} =>
        LET v == calc.val
        IN  /\ \A i \in 1..Len(v) : v[i] = ":" => (i > 1 /\ v[i - 1] = "\\")
            /\ \A i \in 1..Len(v) : v[i] = "\\" => (i < Len(v) /\ v[i + 1] = ":")

\* C25: escaping an escaped path again gives the same path.
C25_EscapeIdempotent ==
    calc.fn = "escape_ffmpeg_path" => escape_ffmpeg_path(calc.val) = calc.val

\* the positions in graph g of the fragments that define a label [v..]
SegmentsOf(g) == {k \in 1..(Len(g) - 1) : g[k].out[1] = "v"}

\* C22: for N >= 1 images and transition_duration < duration_per_image, with
\* any transition_type, the graph defines exactly the N labels [v0]..[vN-1],
\* one fragment each, and ends in one concat node with n = N whose inputs
\* are those labels, each defined by an earlier fragment.
C22_GraphHasNSegments ==
    (/\ calc.fn = "filter_complex"
     /\ calc.n >= 1
     /\ calc.transition_duration < calc.duration_per_image) =>
        LET g == calc.val
            last == g[Len(g)]
        IN  /\ Cardinality(SegmentsOf(g)) = calc.n
            /\ {g[k].out : k \in SegmentsOf(g)} = {<<"v", i>> : i \in 0..(calc.n - 1)}
            /\ last.filters = <<[filter |-> "concat", n |-> calc.n]>>
            /\ \A k \in 1..(Len(g) - 1) : g[k].filters[1].filter # "concat"
            /\ Len(last.ins) = calc.n
            /\ \A m \in 1..Len(last.ins) : \E k \in SegmentsOf(g) : g[k].out = last.ins[m]

\* C27: with transition_type "fade" or "dissolve" and N >= 2 images, image 0
\* has one filter, a fade-out that starts at duration_per_image -
\* transition_duration; image N-1 has one filter, a fade-in that starts at 0;
\* every image in between has a fade-in at 0 and then that fade-out; each
\* fade lasts transition_duration.
C27_FadeSides ==
    (/\ calc.fn = "filter_complex"
     /\ calc.transition_type \in {"fade", "dissolve"}
     /\ calc.n >= 2) =>
        LET g == calc.val
            fadeIn == [filter |-> IF calc.transition_type = "fade" THEN "fade"
                                  ELSE "format=rgba,fade:alpha=1",
                       t |-> "in", st |-> 0, d |-> calc.transition_duration]
            fadeOut == [fadeIn EXCEPT !.t = "out",
                           !.st = calc.duration_per_image - calc.transition_duration]
        IN  \A i \in 0..(calc.n - 1) :
                \E k \in SegmentsOf(g) :
                    /\ g[k].out = <<"v", i>>
                    /\ g[k].ins = <<<<"scaled", i>>>>
                    /\ g[k].filters = IF i = 0 THEN <<fadeOut>>
                                      ELSE IF i = calc.n - 1 THEN <<fadeIn>>
                                      ELSE <<fadeIn, fadeOut>>

\* the builder of the job runner was called with "dissolve" for three images
C27_Witness ==
    /\ calc.fn = "filter_complex"
    /\ calc.builder = "process_video_with_subtitle_task"
    /\ calc.transition_type = "dissolve"
    /\ calc.n = 3
    /\ Len(calc.val) = 7

\* C21: a request whose list of images is empty after image_limit is applied
\* is rejected: no job is created and no process invoked for it, and no
\* concat node with n = 0 is built.
C21_NoEmptyConcat ==
    calc.fn = "admit" =>
        /\ calc.val.images = 0 => calc.val.outcome = "rejected"
        /\ calc.val.outcome # "rejected" => calc.val.concat.n >= 1

\* C26: the stages of a job run in sequence, and a job waits on the process
\* of stage s + 1 only when the processes of stages 1..s have exited with
\* code 0 and the runner has seen the output file of stage s exist.
C26_StageAfterConfirmedStage ==
    \A j \in Ids : \A s \in 1..2 :
        pc[j] = StagePc(s + 1) =>
            /\ Len(exits[j]) = s
            /\ \A k \in 1..s : exits[j][k] = 0
            /\ s \in confirmed[j]

\* C29: a record is removed by the sweeper alone and changed by the runner
\* of its own job alone: a step of the runner of job a leaves the record of
\* every other job as it is, and no step changes the params of a record.
C29_RecordOwnedByRunner ==
    [][\A j \in DOMAIN tasks :
          /\ j \notin DOMAIN tasks' => SweepStep
          /\ j \in DOMAIN tasks' =>
                /\ tasks'[j].params = tasks[j].params
                /\ tasks'[j] # tasks[j] =>
                      /\ RunnerStep(j)
                      /\ \A a \in DOMAIN pc \ {j} : ~RunnerStep(a)]_vars

\* two jobs at once: the runner of one has reached its second stage while
\* the other job is still pending, its record as it was created
C29_Witness ==
    \E a \in DOMAIN tasks, b \in DOMAIN tasks :
        /\ a # b
        /\ pc[a] = StagePc(2) /\ tasks[a].status = PROCESSING
        /\ tasks[a].progress = Checkpoint(runner[a], 2)
        /\ pc[b] = "scheduled" /\ tasks[b] = InitialRecord(tasks[b].params)

\* the records a sweep may reclaim: completed or failed, completed_at more
\* than 3600 s back
Eligible ==
    {j \in DOMAIN tasks :
        /\ tasks[j].status \in {COMPLETED, FAILED}
        /\ tasks[j].completed_at # None
        /\ now - tasks[j].completed_at[1] > 3600}

\* the pc values at which a runner still has a write to its record ahead
Running == {"scheduled", "started", "stage1", "stage2", "stage3", "cleanup"}

\* C30: a sweep removes a record, and deletes a directory, only of a
\* completed or failed job whose completed_at lies more than 3600 s back; a
\* pending or processing job keeps its record, so a runner that has a write
\* ahead always has its record; and a sweep in which the deletion of a
\* directory raises still removes every eligible record and deletes the
\* directories of the other eligible completed jobs.
C30_SweepSparesRunningJobs ==
    [][/\ \A j \in DOMAIN pc : pc'[j] \in Running => j \in DOMAIN tasks'
       /\ (pc' = pc /\ now' = now /\ SweepStep) =>
            /\ \A j \in DOMAIN tasks \ Eligible : j \in DOMAIN tasks' /\ tasks'[j] = tasks[j]
            /\ \A d \in DOMAIN disk \ DOMAIN disk' :
                    \E j \in Eligible : d = tasks[j].params.task_dir
            /\ \A j \in Eligible :
                    /\ j \notin DOMAIN tasks'
                    /\ (/\ tasks[j].status = COMPLETED
                        /\ tasks[j].output_path # None
                        /\ tasks[j].params.task_dir \notin rmtreeRaised')
                            => tasks[j].params.task_dir \notin DOMAIN disk']_vars

\* the deletion of the directory of a completed job has raised in a sweep
\* (the directory is still there, with the output and no intermediate file),
\* its record is gone all the same, and the other job has been reclaimed too
C30_Witness ==
    \E j \in DOMAIN pc, k \in DOMAIN pc :
        /\ j # k
        /\ pc[j] = "done" /\ j \notin DOMAIN tasks
        /\ TaskDir(j) \in rmtreeRaised /\ TaskDir(j) \in DOMAIN disk
        /\ "output" \in disk[TaskDir(j)]
        /\ \A i \in 1..Len(Intermediates(runner[j])) :
                Intermediates(runner[j])[i] \notin disk[TaskDir(j)]
        /\ pc[k] = "done" /\ k \notin DOMAIN tasks

====
